---- MODULE Spec2Model ----
(***************************************************************************)
(* gosoap: Client.Do (client.go) and the envelope decode it drives, with   *)
(* the decode test table of the repository (envelopeDecodeTests).          *)
(*                                                                         *)
(* A response body is a sequence of XML items, one per line of the         *)
(* document, as the documents of the decode test table are laid out: item  *)
(* i sits on line i.  Texts are numbered; text 0 is the empty string.      *)
(***************************************************************************)
EXTENDS Integers, Sequences, FiniteSets, TLC

\* Greatest text number a generated document uses (0 is the empty string).
MaxText == 1

Texts == 0..MaxText

-----------------------------------------------------------------------------
(* Names and XML items *)

soapEnvNS == "http://schemas.xmlsoap.org/soap/envelope/"

QName(space, local) == <<space, local>>

NoName == QName("", "")

envelopeName == QName(soapEnvNS, "Envelope")

bodyName == QName(soapEnvNS, "Body")

faultName == QName(soapEnvNS, "Fault")

contentName == QName("ns", "ContentExample")

\* An element called Fault outside the envelope namespace: caller content.
foreignFaultName == QName("ns", "Fault")

fieldName == QName("ns", "ContentField")

htmlName == QName("", "html")

Item(k, name, attr, text) == [k |-> k, name |-> name, attr |-> attr, text |-> text]

Prolog == Item("prolog", NoName, 0, 0)

Open(name, attr) == Item("open", name, attr, 0)

Close(name) == Item("close", name, 0, 0)

\* <name attr="..">text</name> on one line.
Leaf(name, attr, text) == Item("leaf", name, attr, text)

\* <name attr="..", attr2="..">text</name>: bad attribute syntax on its line.
BadAttrLeaf(name) == Item("badattr", name, 0, 0)

\* <name>text</name with no closing '>': noticed on the following line.
UnterminatedLeaf(name, text) == Item("unterminated", name, 0, text)

\* The verbatim inner markup of a detail element.
Raw(text) == Item("raw", NoName, 0, text)

\* Character data outside any element.
CharData(text) == Item("chardata", NoName, 0, text)

-----------------------------------------------------------------------------
(* Response documents *)

ContentDefects == {"none", "mismatch", "badattr"}

FaultDefects == {"none", "unterminated"}

\* An envelope whose Body holds one content element named first.
ContentDoc(first, attr, text, defect) ==
    LET field == IF defect = "badattr" THEN BadAttrLeaf(fieldName)
                 ELSE Leaf(fieldName, attr, text)
        tail  == IF defect = "mismatch"
                 THEN <<Close(bodyName), Close(first), Close(envelopeName)>>
                 ELSE <<Close(first), Close(bodyName), Close(envelopeName)>>
    IN  <<Prolog, Open(envelopeName, 0), Open(bodyName, 0), Open(first, attr), field>> \o tail

\* An envelope whose Body holds a Fault; actor and detail are optional.
FaultDoc(code, string, hasActor, hasDetail, detail, defect) ==
    LET fc == IF defect = "unterminated"
              THEN UnterminatedLeaf(QName("", "faultcode"), code)
              ELSE Leaf(QName("", "faultcode"), 0, code)
    IN  <<Prolog, Open(envelopeName, 0), Open(bodyName, 0), Open(faultName, 0), fc,
          Leaf(QName("", "faultstring"), 0, string)>>
        \o (IF hasActor THEN <<Leaf(QName("", "faultactor"), 0, 1)>> ELSE <<>>)
        \o (IF hasDetail
            THEN <<Open(QName("", "detail"), 0), Raw(detail), Close(QName("", "detail"))>>
            ELSE <<>>)
        \o <<Close(faultName), Close(bodyName), Close(envelopeName)>>

\* "internal error": a body that is no XML at all.
PlainTextDoc == <<CharData(1)>>

\* An HTML page, as an intermediary answers.
HtmlDoc == <<Open(htmlName, 0), CharData(1), Close(htmlName)>>

EmptyDoc == <<>>

ContentDocs ==
    { ContentDoc(n, a, t, d) : n \in {contentName, foreignFaultName},
                               a \in Texts, t \in Texts, d \in ContentDefects }

FaultDocs ==
    { FaultDoc(c, s, ha, hd, 1, d) : c \in Texts, s \in Texts, ha \in BOOLEAN,
                                     hd \in BOOLEAN, d \in FaultDefects }

Documents == ContentDocs \cup FaultDocs \cup {PlainTextDoc, HtmlDoc, EmptyDoc}

-----------------------------------------------------------------------------
(* Errors *)

NoErr == [kind |-> "nil"]

ErrUnsupportedContentType == [kind |-> "ErrUnsupportedContentType"]

ErrEnvelopeMisconfigured == [kind |-> "ErrEnvelopeMisconfigured"]

SyntaxError(line, msg) == [kind |-> "SyntaxError", Line |-> line, Msg |-> msg]

\* "expected element type <Envelope> but have <...>"
UnmarshalError(name) == [kind |-> "UnmarshalError", have |-> name]

\* io.EOF: the input ended before any element.
EOFError == [kind |-> "EOF"]

\* The response stream failed while being read.
ReadError == [kind |-> "ReadError"]

HTTPError(status, body) == [kind |-> "HTTPError", StatusCode |-> status, ResponseBody |-> body]

\* What the FaultError contract returns: the Fault's fields and the decoded detail.
FaultErrorValue(fault, detail) ==
    [kind |-> "FaultError", Code |-> fault.Code, String |-> fault.String,
     Actor |-> fault.Actor, Detail |-> detail]

-----------------------------------------------------------------------------
(* Envelope model *)

\* The zero value of a caller's content struct.
ZeroContent == [XMLName |-> NoName, Attr1 |-> 0, Field1 |-> [Attr1 |-> 0, Value |-> 0]]

NoDetail == [present |-> FALSE, Content |-> 0]

\* A nil *Fault.
NilFault ==
    [alloc |-> FALSE, XMLName |-> NoName, Code |-> 0, String |-> 0, Actor |-> 0,
     DetailInternal |-> NoDetail]

\* EmptyFault with a detail holder allocated beforehand.
EmptyFaultWithDetail ==
    [NilFault EXCEPT !.alloc = TRUE, !.DetailInternal = [present |-> TRUE, Content |-> 0]]

\* &SOAPFault{Detail: faultDetail}: an allocated, empty Fault holder.
EmptyFault == [NilFault EXCEPT !.alloc = TRUE]

\* Body: XMLName, whether a content pointer is bound, the Fault, and which of
\* its two states decode resolved it to.
MakeBody(bound, fault) ==
    [XMLName |-> NoName, Content |-> bound, Fault |-> fault, resolved |-> "none"]

\* NewEnvelope(contentPtr): binds the content pointer; the Fault is nil.
NewEnvelope(bound) == MakeBody(bound, NilFault)

-----------------------------------------------------------------------------
(* Envelope decode *)

Push(stack, name) == Append(stack, name)

Pop(stack) == SubSeq(stack, 1, Len(stack) - 1)

Fail(st, e) == [st EXCEPT !.phase = "failed", !.err = e]

\* FirstChild without the configuration check.
FirstChildNoCheck(st, tok, isLeaf) ==
    IF tok.name = faultName
    THEN [st EXCEPT !.body.Fault.alloc = TRUE, !.body.Fault.XMLName = faultName,
                    !.body.resolved = "Fault",
                    !.phase = IF isLeaf THEN "afterchild" ELSE "fault"]
    ELSE [st EXCEPT !.target.XMLName = tok.name, !.target.Attr1 = tok.attr,
                    !.body.resolved = "Content",
                    !.phase = IF isLeaf THEN "afterchild" ELSE "content"]

\* Body.UnmarshalXML on the Body's first child, a start element of name tok.name:
\* the configuration check, then the discrimination by qualified name.
FirstChild(st, tok, isLeaf) ==
    IF ~st.body.Content /\ tok.name # faultName
    THEN Fail(st, ErrEnvelopeMisconfigured)
    ELSE IF tok.name = faultName
    THEN [st EXCEPT !.body.Fault.alloc = TRUE, !.body.Fault.XMLName = faultName,
                    !.body.resolved = "Fault",
                    !.phase = IF isLeaf THEN "afterchild" ELSE "fault"]
    ELSE [st EXCEPT !.target.XMLName = tok.name, !.target.Attr1 = tok.attr,
                    !.body.resolved = "Content",
                    !.phase = IF isLeaf THEN "afterchild" ELSE "content"]

\* A start element at nesting depth Len(st.stack).
OnOpen(st, tok) ==
    LET depth  == Len(st.stack)
        pushed == [st EXCEPT !.stack = Push(st.stack, tok.name)]
    IN  CASE st.phase = "root" /\ depth = 0 ->
               IF tok.name = envelopeName THEN [pushed EXCEPT !.phase = "env"]
               ELSE Fail(st, UnmarshalError(tok.name))
          [] st.phase = "env" /\ depth = 1 /\ tok.name = bodyName ->
               [pushed EXCEPT !.phase = "body", !.body.XMLName = bodyName]
          [] st.phase = "body" /\ depth = 2 -> FirstChild(pushed, tok, FALSE)
          [] st.phase = "fault" /\ depth = 3 /\ tok.name[2] = "detail" ->
               [pushed EXCEPT !.phase = "detail",
                              !.body.Fault.DetailInternal = [present |-> TRUE, Content |-> 0]]
          [] OTHER -> pushed

\* A whole childless element on one line.
OnLeaf(st, tok) ==
    LET depth == Len(st.stack)
    IN  CASE st.phase = "root" /\ depth = 0 ->
               IF tok.name = envelopeName THEN [st EXCEPT !.phase = "done"]
               ELSE Fail(st, UnmarshalError(tok.name))
          [] st.phase = "body" /\ depth = 2 -> FirstChild(st, tok, TRUE)
          [] st.phase = "fault" /\ depth = 3 /\ tok.name[2] = "faultcode" ->
               [st EXCEPT !.body.Fault.Code = tok.text]
          [] st.phase = "fault" /\ depth = 3 /\ tok.name[2] = "faultstring" ->
               [st EXCEPT !.body.Fault.String = tok.text]
          [] st.phase = "fault" /\ depth = 3 /\ tok.name[2] = "faultactor" ->
               [st EXCEPT !.body.Fault.Actor = tok.text]
          [] st.phase = "content" /\ depth = 3 /\ tok.name[2] = fieldName[2] ->
               [st EXCEPT !.target.Field1 = [Attr1 |-> tok.attr, Value |-> tok.text]]
          [] OTHER -> st

\* An end element that matches the open one.
OnClose(st) ==
    LET depth  == Len(st.stack)
        popped == [st EXCEPT !.stack = Pop(st.stack)]
    IN  CASE st.phase = "detail" /\ depth = 4 -> [popped EXCEPT !.phase = "fault"]
          [] st.phase \in {"fault", "content"} /\ depth = 3 ->
               [popped EXCEPT !.phase = "afterchild"]
          [] st.phase \in {"body", "afterchild"} /\ depth = 2 ->
               [popped EXCEPT !.phase = "afterbody"]
          [] st.phase \in {"env", "afterbody"} /\ depth = 1 ->
               [popped EXCEPT !.phase = "done"]
          [] OTHER -> popped

\* One item, on line i: the tokenizer's syntax checks first, then the decode.
Step(st, tok, i) ==
    LET top == IF st.stack = <<>> THEN NoName ELSE st.stack[Len(st.stack)]
    IN  CASE tok.k = "prolog" -> st
          [] tok.k = "chardata" -> st
          [] tok.k = "badattr" ->
               Fail(st, SyntaxError(i, <<"expected attribute name in element">>))
          [] tok.k = "unterminated" ->
               Fail(st, SyntaxError(i + 1, <<"invalid characters between </", tok.name[2], " and >">>))
          [] tok.k = "close" /\ st.stack = <<>> ->
               Fail(st, SyntaxError(i, <<"unexpected end element </", tok.name[2], ">">>))
          [] tok.k = "close" /\ top # tok.name ->
               Fail(st, SyntaxError(i, <<"element <", top[2], "> closed by </", tok.name[2], ">">>))
          [] tok.k = "close" -> OnClose(st)
          [] tok.k = "open" -> OnOpen(st, tok)
          [] tok.k = "leaf" -> OnLeaf(st, tok)
          [] tok.k = "raw" ->
               IF st.phase = "detail"
               THEN [st EXCEPT !.body.Fault.DetailInternal.Content = tok.text]
               ELSE st
          [] OTHER -> st

RECURSIVE Run(_, _, _)
Run(toks, i, st) ==
    IF st.phase \in {"done", "failed"} THEN st
    ELSE IF i > Len(toks) THEN [st EXCEPT !.phase = "needmore"]
    ELSE Run(toks, i + 1, Step(st, toks[i], i))

\* The items a reader yields before it fails at item failAt (0: it never fails).
Readable(toks, failAt) == IF failAt = 0 THEN toks ELSE SubSeq(toks, 1, failAt - 1)

\* dec.Decode(envelope) reading toks; the content pointer, when bound, points at
\* target.  Yields the error, the envelope's body and the target as decode left it.
Decode(toks, failAt, body, target) ==
    LET st == Run(Readable(toks, failAt), 1,
                  [phase |-> "root", stack |-> <<>>, err |-> NoErr,
                   body |-> body, target |-> target])
        err == CASE st.phase = "done" -> NoErr
                 [] st.phase = "failed" -> st.err
                 [] failAt # 0 -> ReadError
                 [] st.stack = <<>> -> EOFError
                 [] OTHER -> SyntaxError(Len(toks), <<"unexpected EOF">>)
    IN  [err |-> err, body |-> st.body, target |-> st.target]

\* Fault detail redecoded into the caller's detail target: the raw fragment,
\* whitespace-trimmed, parsed on its own.
DecodeDetail(fault) == IF fault.DetailInternal.present THEN fault.DetailInternal.Content ELSE 0

\* Body.ErrorFromFault: the FaultError contract's error when the Body resolved
\* to a Fault, nil otherwise.
ErrorFromFault(body) ==
    IF body.resolved = "Fault" THEN FaultErrorValue(body.Fault, DecodeDetail(body.Fault))
    ELSE NoErr

-----------------------------------------------------------------------------
(* Client.Do *)

Statuses == {200, 404, 500}

ContentTypes == {"text/xml", "text/html"}

\* Endpoints a Client is created with; the second is no valid URL.
Urls == {"http://host/service", ":invalid"}

\* What c.http.Do can fail with.
TransportErrors == {[kind |-> "connection refused"], [kind |-> "context canceled"]}

NoResponse == [StatusCode |-> 0, ContentType |-> "", Body |-> <<>>, failAt |-> 0]

NoEnvelope == [XMLName |-> NoName, Content |-> FALSE, Fault |-> NilFault, resolved |-> "absent"]

VARIABLES
    client,           \* Client{url, http, headers}
    pc,               \* where the call of Do stands
    response,         \* whether the caller passed a non-nil response pointer
    responseTarget,   \* the caller's response value
    faultDetail,      \* the caller's fault detail value
    httpReq,          \* whether the transport request was built
    res,              \* the transport's response
    respEnvelope,     \* respEnvelope.Body
    body,             \* what the decoder reads: "none", "live" or "buffer"
    cachedErrorBody,  \* the bytes read at status 500
    err,              \* what Do returned
    deferred,         \* whether res.Body.Close is deferred
    closed,           \* how often res.Body was closed
    requests,         \* transport requests issued by this call
    transportErr,     \* the error the transport produced
    decErr,           \* the error dec.Decode returned
    trace             \* the steps this call took, in order

callVars == <<pc, response, responseTarget, faultDetail, httpReq, res, respEnvelope, body,
              cachedErrorBody, err, deferred, closed, requests, transportErr, decErr, trace>>

-----------------------------------------------------------------------------
(* The decode test table *)

VARIABLES
    testIndex,        \* the next row of envelopeDecodeTests
    testErrors        \* rows on which TestEnvelopeDecode reported an error

testVars == <<testIndex, testErrors>>

-----------------------------------------------------------------------------
(* The outbound request and the envelope encode *)

VARIABLES
    rpc,              \* where the building of an outbound request stands
    req,              \* the Request: endpoint, payload, header builders
    added,            \* the builders given to AddHeader after NewRequest, in call order
    wire,             \* the encoded envelope
    back,             \* what decoding wire into a fresh target gave
    encIndex,         \* the next row of envelopeEncodeTests
    encErrors         \* rows on which TestEnvelopeEncode reported an error

codecVars == <<rpc, req, added, wire, back, encIndex, encErrors>>

-----------------------------------------------------------------------------
(* Concurrent calls of Do on one Client *)

VARIABLES
    calls             \* the state of each concurrent call

concVars == <<calls>>

vars == <<client, callVars, testVars, codecVars, concVars>>

\* NewClient(url, soapHeaders...): the default transport and the standing
\* header builders.
NewClient(url, soapHeaders) == [url |-> url, http |-> "DefaultClient", headers |-> soapHeaders]

\* req.httpRequest(): the error of building the transport request for the
\* endpoint (nil when the endpoint is a valid URL).
HttpRequestError(url) ==
    IF url = "http://host/service" THEN NoErr ELSE [kind |-> "invalid URL"]

\* io.ReadAll(res.Body): everything up to the end of the stream, or what was
\* read before the stream failed, with the failure.
ReadAll(toks, failAt) ==
    IF failAt = 0 THEN [err |-> NoErr, data |-> toks]
    ELSE [err |-> ReadError, data |-> SubSeq(toks, 1, failAt - 1)]

\* NewRespEnvelope with Content: nil, the response pointer not bound.
NewRespEnvelopeUnbound(bound) == MakeBody(FALSE, EmptyFault)

\* respEnvelope.Body = SOAPBodyResponse{Content: response, Fault: &SOAPFault{...}}
NewRespEnvelope(bound) == MakeBody(bound, EmptyFault)

\* TransportFailure wrapping the transport's error.
TransportFailureWrapped(e) == [kind |-> "soap: transport", cause |-> e]

\* return err, after a failed c.http.Do
TransportFailure(e) == e

\* CloseOnReturn with the defer statement missing.
CloseOnReturnNever(isDeferred) == 0

\* What the deferred res.Body.Close() adds to the closes when Do returns.
CloseOnReturn(isDeferred) == IF isDeferred THEN 1 ELSE 0

\* DoResult without the status check: a decode error is returned as it is.
DoResultNoFallback(status, d, cached) ==
    IF d.err # NoErr THEN d.err ELSE ErrorFromFault(d.body)

\* DoResult wrapping every decode error in an HTTPError.
DoResultAlwaysHTTPError(status, d, cached) ==
    IF d.err # NoErr THEN HTTPError(status, cached) ELSE ErrorFromFault(d.body)

\* DoResult that looks at the status before the decode result.
DoResultStatusFirst(status, d, cached) ==
    IF status = 500 THEN HTTPError(status, cached)
    ELSE IF d.err # NoErr THEN d.err ELSE ErrorFromFault(d.body)

\* DoResult dropping a decode error at a status other than 500.
DoResultSwallow(status, d, cached) ==
    IF d.err # NoErr
    THEN IF status = 500 THEN HTTPError(status, cached) ELSE NoErr
    ELSE ErrorFromFault(d.body)

\* What Do returns once dec.Decode returned d: on a decode error the HTTPError
\* with the cached body at status 500 and the decode error otherwise; else
\* respEnvelope.Body.ErrorFromFault().
DoResult(status, d, cached) ==
    IF d.err # NoErr
    THEN IF status = 500 THEN HTTPError(status, cached) ELSE d.err
    ELSE ErrorFromFault(d.body)

Returns(e) ==
    /\ pc' = "done"
    /\ err' = e
    /\ closed' = closed + CloseOnReturn(deferred)
    /\ trace' = Append(trace, "return")

\* A caller invokes Do with a response pointer that is nil or bound.
Do ==
    /\ pc = "idle"
    /\ \E bound \in BOOLEAN : response' = bound
    /\ pc' = "build"
    /\ trace' = <<"call">>
    /\ UNCHANGED <<client, responseTarget, faultDetail, httpReq, res, respEnvelope, body,
                   cachedErrorBody, err, deferred, closed, requests, transportErr, decErr,
                   testVars, codecVars, concVars>>

\* DoBuild going on to the transport whatever httpRequest returned.
DoBuildIgnoreError ==
    /\ pc = "build"
    /\ httpReq' = (HttpRequestError(client.url) = NoErr)
    /\ pc' = "send"
    /\ trace' = Append(trace, "build")
    /\ UNCHANGED <<err, closed>>
    /\ UNCHANGED <<client, response, responseTarget, faultDetail, res, respEnvelope, body,
                   cachedErrorBody, deferred, requests, transportErr, decErr, testVars, codecVars, concVars>>

\* NewRequest, AddHeader, httpRequest.
DoBuild ==
    /\ pc = "build"
    /\ LET e == HttpRequestError(client.url)
       IN  IF e # NoErr
           THEN Returns(e) /\ UNCHANGED httpReq
           ELSE /\ httpReq' = TRUE
                /\ pc' = "send"
                /\ trace' = Append(trace, "build")
                /\ UNCHANGED <<err, closed>>
    /\ UNCHANGED <<client, response, responseTarget, faultDetail, res, respEnvelope, body,
                   cachedErrorBody, deferred, requests, transportErr, decErr, testVars, codecVars, concVars>>

\* DoTransport that issues the request again after a transport failure.
DoTransportRetry ==
    /\ pc = "send"
    /\ requests' = requests + 1
    /\ \/ \E e \in TransportErrors :
            /\ transportErr' = e
            /\ IF requests < 2
               THEN UNCHANGED <<pc, err, closed, trace>>
               ELSE Returns(TransportFailure(e))
            /\ UNCHANGED <<res, deferred>>
       \/ \E status \in Statuses, ct \in ContentTypes, doc \in Documents :
            \E failAt \in 0..Len(doc) :
              /\ res' = [StatusCode |-> status, ContentType |-> ct, Body |-> doc,
                         failAt |-> failAt]
              /\ deferred' = TRUE
              /\ pc' = "envelope"
              /\ trace' = Append(trace, "send")
              /\ UNCHANGED <<err, closed, transportErr>>
    /\ UNCHANGED <<client, response, responseTarget, faultDetail, httpReq, respEnvelope,
                   body, cachedErrorBody, decErr, testVars, codecVars, concVars>>

\* c.http.Do(httpReq.WithContext(ctx)) and defer res.Body.Close().
DoTransport ==
    /\ pc = "send"
    /\ requests' = requests + 1
    /\ \/ \E e \in TransportErrors :
            /\ transportErr' = e
            /\ Returns(TransportFailure(e))
            /\ UNCHANGED <<res, deferred>>
       \/ \E status \in Statuses, ct \in ContentTypes, doc \in Documents :
            \E failAt \in 0..Len(doc) :
              /\ res' = [StatusCode |-> status, ContentType |-> ct, Body |-> doc,
                         failAt |-> failAt]
              /\ deferred' = TRUE
              /\ pc' = "envelope"
              /\ trace' = Append(trace, "send")
              /\ UNCHANGED <<err, closed, transportErr>>
    /\ UNCHANGED <<client, response, responseTarget, faultDetail, httpReq, respEnvelope,
                   body, cachedErrorBody, decErr, testVars, codecVars, concVars>>

\* respEnvelope := new(SOAPEnvelopeResponse) with its Body bound.
DoEnvelope ==
    /\ pc = "envelope"
    /\ respEnvelope' = NewRespEnvelope(response)
    /\ pc' = "status"
    /\ trace' = Append(trace, "envelope")
    /\ UNCHANGED <<client, response, responseTarget, faultDetail, httpReq, res, body,
                   cachedErrorBody, err, deferred, closed, requests, transportErr, decErr,
                   testVars, codecVars, concVars>>

\* DoStatus reading the body into the buffer at every status.
DoStatusBufferAlways ==
    /\ pc = "status"
    /\ LET r == ReadAll(res.Body, res.failAt)
       IN  /\ cachedErrorBody' = r.data
           /\ IF r.err # NoErr
              THEN Returns(r.err) /\ UNCHANGED body
              ELSE /\ body' = "buffer"
                   /\ pc' = "decode"
                   /\ trace' = Append(trace, "readall")
                   /\ UNCHANGED <<err, closed>>
    /\ UNCHANGED <<client, response, responseTarget, faultDetail, httpReq, res,
                   respEnvelope, deferred, requests, transportErr, decErr, testVars, codecVars, concVars>>

\* DoStatus dropping the error of io.ReadAll: what was read is decoded.
DoStatusIgnoreReadError ==
    /\ pc = "status"
    /\ IF res.StatusCode = 500
       THEN /\ cachedErrorBody' = ReadAll(res.Body, res.failAt).data
            /\ body' = "buffer"
            /\ pc' = "decode"
            /\ trace' = Append(trace, "readall")
            /\ UNCHANGED <<err, closed>>
       ELSE /\ body' = "live"
            /\ pc' = "decode"
            /\ trace' = Append(trace, "live")
            /\ UNCHANGED <<cachedErrorBody, err, closed>>
    /\ UNCHANGED <<client, response, responseTarget, faultDetail, httpReq, res,
                   respEnvelope, deferred, requests, transportErr, decErr, testVars, codecVars, concVars>>

\* body := res.Body; at status 500 the body is read whole and replaced.
DoStatus ==
    /\ pc = "status"
    /\ IF res.StatusCode = 500
       THEN LET r == ReadAll(res.Body, res.failAt)
            IN  /\ cachedErrorBody' = r.data
                /\ IF r.err # NoErr
                   THEN Returns(r.err) /\ UNCHANGED body
                   ELSE /\ body' = "buffer"
                        /\ pc' = "decode"
                        /\ trace' = Append(trace, "readall")
                        /\ UNCHANGED <<err, closed>>
       ELSE /\ body' = "live"
            /\ pc' = "decode"
            /\ trace' = Append(trace, "live")
            /\ UNCHANGED <<cachedErrorBody, err, closed>>
    /\ UNCHANGED <<client, response, responseTarget, faultDetail, httpReq, res,
                   respEnvelope, deferred, requests, transportErr, decErr, testVars, codecVars, concVars>>

\* dec.Decode(respEnvelope) and the return that follows it.
DoDecode ==
    /\ pc = "decode"
    /\ LET src  == IF body = "buffer" THEN cachedErrorBody ELSE res.Body
           fail == IF body = "buffer" THEN 0 ELSE res.failAt
           d    == Decode(src, fail, respEnvelope, responseTarget)
       IN  /\ decErr' = d.err
           /\ respEnvelope' = d.body
           /\ responseTarget' = d.target
           /\ faultDetail' = IF d.err = NoErr /\ d.body.resolved = "Fault"
                             THEN DecodeDetail(d.body.Fault) ELSE faultDetail
           /\ pc' = "done"
           /\ err' = DoResult(res.StatusCode, d, cachedErrorBody)
           /\ closed' = closed + CloseOnReturn(deferred)
           /\ trace' = trace \o <<"decode", "return">>
    /\ UNCHANGED <<client, response, httpReq, res, body, cachedErrorBody, deferred,
                   requests, transportErr, testVars, codecVars, concVars>>

\* The call is over; the caller may call again.
Finish ==
    /\ pc = "done"
    /\ pc' = "idle"
    /\ response' = FALSE
    /\ responseTarget' = ZeroContent
    /\ faultDetail' = 0
    /\ httpReq' = FALSE
    /\ res' = NoResponse
    /\ respEnvelope' = NoEnvelope
    /\ body' = "none"
    /\ cachedErrorBody' = <<>>
    /\ err' = NoErr
    /\ deferred' = FALSE
    /\ closed' = 0
    /\ requests' = 0
    /\ transportErr' = NoErr
    /\ decErr' = NoErr
    /\ trace' = <<>>
    /\ UNCHANGED <<client, testVars, codecVars, concVars>>


Marshal(b, target) ==
    [Body    |-> b.XMLName,
     Content |-> IF b.resolved = "Content"
                 THEN <<[Attr1 |-> target.Attr1, Field1 |-> target.Field1]>> ELSE <<>>,
     Fault   |-> IF b.resolved = "Fault"
                 THEN <<[XMLName |-> b.Fault.XMLName, Code |-> b.Fault.Code,
                         String |-> b.Fault.String, Actor |-> b.Fault.Actor,
                         DetailInternal |-> b.Fault.DetailInternal]>>
                 ELSE <<>>]

NoOut == [Body |-> NoName, Content |-> <<>>, Fault |-> <<>>]

ExpectedFault(hasDetail) ==
    [Body |-> bodyName, Content |-> <<>>,
     Fault |-> <<[XMLName |-> faultName, Code |-> 1, String |-> 1, Actor |-> 1,
                  DetailInternal |-> IF hasDetail THEN [present |-> TRUE, Content |-> 1]
                                     ELSE NoDetail]>>]

envelopeDecodeTests ==
    << [in |-> ContentDoc(contentName, 1, 1, "none"), contentPtr |-> TRUE, err |-> NoErr,
        out |-> [Body |-> bodyName, Fault |-> <<>>,
                 Content |-> <<[Attr1 |-> 1, Field1 |-> [Attr1 |-> 1, Value |-> 1]]>>]],
       [in |-> FaultDoc(1, 1, TRUE, TRUE, 1, "none"), contentPtr |-> TRUE, err |-> NoErr,
        out |-> ExpectedFault(TRUE)],
       [in |-> FaultDoc(1, 1, TRUE, FALSE, 1, "none"), contentPtr |-> TRUE, err |-> NoErr,
        out |-> ExpectedFault(FALSE)],
       [in |-> ContentDoc(contentName, 1, 1, "mismatch"), contentPtr |-> TRUE,
        err |-> SyntaxError(6, <<"element <", "ContentExample", "> closed by </", "Body", ">">>),
        out |-> NoOut],
       [in |-> ContentDoc(contentName, 1, 1, "badattr"), contentPtr |-> TRUE,
        err |-> SyntaxError(5, <<"expected attribute name in element">>),
        out |-> NoOut],
       [in |-> FaultDoc(1, 1, TRUE, TRUE, 1, "unterminated"), contentPtr |-> TRUE,
        err |-> SyntaxError(6, <<"invalid characters between </", "faultcode", " and >">>),
        out |-> NoOut],
       [in |-> ContentDoc(contentName, 1, 1, "badattr"), contentPtr |-> FALSE,
        err |-> ErrEnvelopeMisconfigured, out |-> NoOut] >>

\* One row of TestEnvelopeDecode: decode tt.in into NewEnvelope(tt.contentPtr)
\* and compare the error, then the marshalled value.  The test binary makes no
\* call of Do, so its rows are taken while no call is in flight.
TestEnvelopeDecode ==
    /\ pc = "idle"
    /\ testIndex <= Len(envelopeDecodeTests)
    /\ LET tt  == envelopeDecodeTests[testIndex]
           d   == Decode(tt.in, 0, NewEnvelope(tt.contentPtr), ZeroContent)
           bad == \/ d.err # tt.err
                  \/ d.err = NoErr /\ Marshal(d.body, d.target) # tt.out
       IN  testErrors' = IF bad THEN testErrors \cup {testIndex} ELSE testErrors
    /\ testIndex' = testIndex + 1
    /\ UNCHANGED <<client, callVars, codecVars, concVars>>

-----------------------------------------------------------------------------
(* Request builder and envelope encode *)

\* Standing header builders a Client is created with, at most.
MaxHeaders == 2

\* AddHeader calls on one request after NewRequest, at most.
MaxAdded == 1

headerName == QName(soapEnvNS, "Header")

headerExampleName == QName("ns", "HeaderExample")

\* A header element, as headerExample{Attr1, Value} encodes.
HeaderElement(n) == Leaf(headerExampleName, n, n)

\* A header builder is what it contributes to a request: no element, one, or two.
Builders == {<<>>, <<HeaderElement(1)>>, <<HeaderElement(2), HeaderElement(3)>>}

RECURSIVE SeqsUpTo(_, _)
SeqsUpTo(S, n) ==
    IF n = 0 THEN {<<>>}
    ELSE SeqsUpTo(S, n - 1) \cup { Append(q, x) : q \in SeqsUpTo(S, n - 1), x \in S }

\* The element names a caller may have set on a content value: none, the local
\* name alone (as the encode test table does), or the qualified name.
CallerNames == {NoName, QName("", "ContentExample"), contentName}

ContentValues ==
    { [XMLName |-> n, Attr1 |-> a, Field1 |-> [Attr1 |-> fa, Value |-> v]] :
        n \in CallerNames, a \in Texts, fa \in Texts, v \in Texts }

NoRequest == [url |-> "", content |-> ZeroContent, headers |-> <<>>]

\* NewRequest(action, url, request, response, nil): no header builder yet.
NewRequest(url, request) == [url |-> url, content |-> request, headers |-> <<>>]

\* Request.AddHeader(builders...): appended after those already registered.
AddHeader(r, builders) == [r EXCEPT !.headers = @ \o builders]

\* DoRequest without the standing builders of the Client.
DoRequestNoStanding(c, request) == NewRequest(c.url, request)

\* req := NewRequest(action, c.url, request, response, nil); req.AddHeader(c.headers...)
DoRequest(c, request) == AddHeader(NewRequest(c.url, request), c.headers)

\* The elements the builders contribute, builder after builder.
RECURSIVE HeaderElements(_)
HeaderElements(builders) ==
    IF builders = <<>> THEN <<>>
    ELSE Head(builders) \o HeaderElements(Tail(builders))

\* Encode writing the payload's field without its character data.
EncodeNoValue(content, headers) ==
    <<Open(envelopeName, 0)>>
    \o (IF headers = <<>> THEN <<>>
        ELSE <<Open(headerName, 0)>> \o headers \o <<Close(headerName)>>)
    \o <<Open(bodyName, 0), Open(contentName, content.Attr1),
         Leaf(fieldName, content.Field1.Attr1, 0),
         Close(contentName), Close(bodyName), Close(envelopeName)>>

\* The envelope of a payload and header elements, encoded: Header, when there
\* is any header element, then Body; the payload under the name of its type.
Encode(content, headers) ==
    <<Open(envelopeName, 0)>>
    \o (IF headers = <<>> THEN <<>>
        ELSE <<Open(headerName, 0)>> \o headers \o <<Close(headerName)>>)
    \o <<Open(bodyName, 0), Open(contentName, content.Attr1),
         Leaf(fieldName, content.Field1.Attr1, content.Field1.Value),
         Close(contentName), Close(bodyName), Close(envelopeName)>>

NoBack == [err |-> NoErr, target |-> ZeroContent]

\* A caller builds a request for a payload, as Do does.
BuildRequest ==
    /\ rpc = "idle"
    /\ \E v \in ContentValues : req' = DoRequest(client, v)
    /\ added' = <<>>
    /\ rpc' = "built"
    /\ UNCHANGED <<client, callVars, testVars, wire, back, encIndex, encErrors, concVars>>

\* A later AddHeader call on the request.
AddHeaderCall ==
    /\ rpc = "built"
    /\ Len(added) < MaxAdded
    /\ \E b \in Builders :
         /\ req' = AddHeader(req, <<b>>)
         /\ added' = Append(added, b)
    /\ UNCHANGED <<client, callVars, testVars, rpc, wire, back, encIndex, encErrors, concVars>>

\* httpRequest(): the envelope of the request, encoded.
EncodeRequest ==
    /\ rpc = "built"
    /\ wire' = Encode(req.content, HeaderElements(req.headers))
    /\ rpc' = "encoded"
    /\ UNCHANGED <<client, callVars, testVars, req, added, back, encIndex, encErrors, concVars>>

\* The encoded envelope decoded into an envelope bound to a fresh target.
DecodeBack ==
    /\ rpc = "encoded"
    /\ LET d == Decode(wire, 0, NewEnvelope(TRUE), ZeroContent)
       IN  back' = [err |-> d.err, target |-> d.target]
    /\ rpc' = "decoded"
    /\ UNCHANGED <<client, callVars, testVars, req, added, wire, encIndex, encErrors, concVars>>

\* The request is dropped; another may be built.
DropRequest ==
    /\ rpc = "decoded"
    /\ rpc' = "idle"
    /\ req' = NoRequest
    /\ added' = <<>>
    /\ wire' = <<>>
    /\ back' = NoBack
    /\ UNCHANGED <<client, callVars, testVars, encIndex, encErrors, concVars>>

ExpectedBody ==
    <<Open(bodyName, 0), Open(contentName, 1), Leaf(fieldName, 1, 1),
      Close(contentName), Close(bodyName), Close(envelopeName)>>

envelopeEncodeTests ==
    << [contentPtr |-> [XMLName |-> NoName, Attr1 |-> 1, Field1 |-> [Attr1 |-> 1, Value |-> 1]],
        headers |-> <<>>,
        res |-> <<Open(envelopeName, 0)>> \o ExpectedBody],
       [contentPtr |-> [XMLName |-> QName("", "ContentExample"), Attr1 |-> 1,
                        Field1 |-> [Attr1 |-> 1, Value |-> 1]],
        headers |-> <<HeaderElement(1)>>,
        res |-> <<Open(envelopeName, 0), Open(headerName, 0),
                  Leaf(headerExampleName, 1, 1), Close(headerName)>> \o ExpectedBody] >>

\* One row of TestEnvelopeEncode: encode NewEnvelope(tt.contentPtr) with
\* tt.headers added and compare with tt.res.
TestEnvelopeEncode ==
    /\ rpc = "idle"
    /\ encIndex <= Len(envelopeEncodeTests)
    /\ LET tt == envelopeEncodeTests[encIndex]
       IN  encErrors' = IF Encode(tt.contentPtr, tt.headers) # tt.res
                        THEN encErrors \cup {encIndex} ELSE encErrors
    /\ encIndex' = encIndex + 1
    /\ UNCHANGED <<client, callVars, testVars, rpc, req, added, wire, back, concVars>>

\* No request is being built and no row of TestEnvelopeEncode was run.
NoRequestBuilt ==
    /\ rpc = "idle"
    /\ req = NoRequest
    /\ added = <<>>
    /\ wire = <<>>
    /\ back = NoBack
    /\ encIndex = 1
    /\ encErrors = {}

-----------------------------------------------------------------------------
(* Concurrent calls of Do on one Client *)

\* Calls of Do in flight on one Client, at most.
NumCalls == 2

CallIds == 1..NumCalls

IdleCall ==
    [pc |-> "idle", response |-> FALSE, req |-> NoRequest, http |-> "",
     res |-> NoResponse, transportErr |-> NoErr, respEnvelope |-> NoEnvelope,
     cachedErrorBody |-> <<>>, target |-> ZeroContent, err |-> NoErr]

NoCallRunning == calls = [c \in CallIds |-> IdleCall]

\* What the transport answers to the concurrent calls.
ConcDocs == {ContentDoc(contentName, 1, 1, "none"), PlainTextDoc}

ConcStatuses == {200, 500}

\* The transports a Client may be given.
HttpClients == {"DefaultClient", "CustomClient"}

\* func (c *Client) SettHTTPClient(client HTTPClient) { c.http = client }
SettHTTPClient ==
    /\ \E h \in HttpClients : client' = [client EXCEPT !.http = h]
    /\ UNCHANGED <<callVars, testVars, codecVars, concVars>>

\* A goroutine invokes Do on the Client with a response pointer of its own.
CallDo(c) ==
    /\ calls[c].pc = "idle"
    /\ calls' = [calls EXCEPT ![c] = [IdleCall EXCEPT !.pc = "build", !.response = TRUE]]
    /\ UNCHANGED <<client, callVars, testVars, codecVars>>

\* CallBuild with AddHeader appending into the Client's own slice.
CallBuildSharedHeaders(c) ==
    /\ calls[c].pc = "build"
    /\ calls' = [calls EXCEPT ![c].req = DoRequest(client, ZeroContent), ![c].pc = "send"]
    /\ client' = [client EXCEPT !.headers = Append(@, <<>>)]
    /\ UNCHANGED <<callVars, testVars, codecVars>>

\* NewRequest, AddHeader(c.headers...), httpRequest: the request is the call's own.
CallBuild(c) ==
    /\ calls[c].pc = "build"
    /\ LET r == DoRequest(client, ZeroContent)
           e == HttpRequestError(client.url)
       IN  calls' = IF e # NoErr
                    THEN [calls EXCEPT ![c].req = r, ![c].err = e, ![c].pc = "done"]
                    ELSE [calls EXCEPT ![c].req = r, ![c].pc = "send"]
    /\ UNCHANGED <<client, callVars, testVars, codecVars>>

\* c.http.Do(httpReq.WithContext(ctx)): c.http is read, the answer is the call's.
CallTransport(c) ==
    /\ calls[c].pc = "send"
    /\ \/ \E e \in TransportErrors :
            calls' = [calls EXCEPT ![c].http = client.http, ![c].transportErr = e,
                                   ![c].err = TransportFailure(e), ![c].pc = "done"]
       \/ \E status \in ConcStatuses, doc \in ConcDocs :
            calls' = [calls EXCEPT ![c].http = client.http,
                                   ![c].res = [StatusCode |-> status, ContentType |-> "text/xml",
                                               Body |-> doc, failAt |-> 0],
                                   ![c].pc = "envelope"]
    /\ UNCHANGED <<client, callVars, testVars, codecVars>>

\* respEnvelope := new(SOAPEnvelopeResponse), a local of the call.
CallEnvelope(c) ==
    /\ calls[c].pc = "envelope"
    /\ calls' = [calls EXCEPT ![c].respEnvelope = NewRespEnvelope(calls[c].response),
                              ![c].pc = "status"]
    /\ UNCHANGED <<client, callVars, testVars, codecVars>>

\* cachedErrorBody, a local of the call, is filled at status 500.
CallStatus(c) ==
    /\ calls[c].pc = "status"
    /\ LET k == calls[c]
           r == ReadAll(k.res.Body, k.res.failAt)
       IN  calls' = IF k.res.StatusCode # 500
                    THEN [calls EXCEPT ![c].pc = "decode"]
                    ELSE IF r.err # NoErr
                    THEN [calls EXCEPT ![c].cachedErrorBody = r.data, ![c].err = r.err,
                                       ![c].pc = "done"]
                    ELSE [calls EXCEPT ![c].cachedErrorBody = r.data, ![c].pc = "decode"]
    /\ UNCHANGED <<client, callVars, testVars, codecVars>>

\* dec.Decode(respEnvelope) and the return that follows it.
CallDecode(c) ==
    /\ calls[c].pc = "decode"
    /\ LET k == calls[c]
           d == Decode(k.res.Body, 0, k.respEnvelope, k.target)
       IN  calls' = [calls EXCEPT ![c].respEnvelope = d.body, ![c].target = d.target,
                                  ![c].err = DoResult(k.res.StatusCode, d, k.cachedErrorBody),
                                  ![c].pc = "done"]
    /\ UNCHANGED <<client, callVars, testVars, codecVars>>

\* The call returned; the goroutine may call again.
CallFinish(c) ==
    /\ calls[c].pc = "done"
    /\ calls' = [calls EXCEPT ![c] = IdleCall]
    /\ UNCHANGED <<client, callVars, testVars, codecVars>>

-----------------------------------------------------------------------------

\* No call of Do was made and no row of TestEnvelopeDecode was run.
NoCallMade ==
    /\ pc = "idle"
    /\ response = FALSE
    /\ responseTarget = ZeroContent
    /\ faultDetail = 0
    /\ httpReq = FALSE
    /\ res = NoResponse
    /\ respEnvelope = NoEnvelope
    /\ body = "none"
    /\ cachedErrorBody = <<>>
    /\ err = NoErr
    /\ deferred = FALSE
    /\ closed = 0
    /\ requests = 0
    /\ transportErr = NoErr
    /\ decErr = NoErr
    /\ trace = <<>>
    /\ testIndex = 1
    /\ testErrors = {}

Init ==
    /\ client \in {NewClient(u, <<>>) : u \in Urls}
    /\ NoCallMade
    /\ NoRequestBuilt
    /\ NoCallRunning

Next ==
    \/ Do
    \/ DoBuild
    \/ DoTransport
    \/ DoEnvelope
    \/ DoStatus
    \/ DoDecode
    \/ Finish
    \/ TestEnvelopeDecode

Spec == Init /\ [][Next]_vars

\* Requests built on a Client with any standing header builders.
InitCodec ==
    /\ client \in {NewClient(u, h) : u \in Urls, h \in SeqsUpTo(Builders, MaxHeaders)}
    /\ NoCallMade
    /\ NoRequestBuilt
    /\ NoCallRunning

NextCodec ==
    \/ BuildRequest
    \/ AddHeaderCall
    \/ EncodeRequest
    \/ DecodeBack
    \/ DropRequest
    \/ TestEnvelopeEncode

SpecCodec == InitCodec /\ [][NextCodec]_vars

\* Goroutines calling Do on one Client with a standing header builder.
InitConc ==
    /\ client \in {NewClient(u, <<<<HeaderElement(1)>>>>) : u \in Urls}
    /\ NoCallMade
    /\ NoRequestBuilt
    /\ NoCallRunning

NextConc ==
    \/ SettHTTPClient
    \/ \E c \in CallIds :
         \/ CallDo(c)
         \/ CallBuild(c)
         \/ CallTransport(c)
         \/ CallEnvelope(c)
         \/ CallStatus(c)
         \/ CallDecode(c)
         \/ CallFinish(c)

SpecConc == InitConc /\ [][NextConc]_vars


-----------------------------------------------------------------------------
(* Properties *)

\* Every row of the decode test table passes against the decode above.
TestsPass == testErrors = {}

Took(step) == \E i \in 1..Len(trace) : trace[i] = step

TransportSucceeded == res # NoResponse

\* The content value a well-formed content document describes.
DocContent(doc) ==
    [XMLName |-> doc[4].name, Attr1 |-> doc[4].attr,
     Field1 |-> [Attr1 |-> doc[5].attr, Value |-> doc[5].text]]

WellFormedDocs ==
    { ContentDoc(n, a, t, "none") : n \in {contentName, foreignFaultName},
                                    a \in Texts, t \in Texts }
    \cup { FaultDoc(c, s, ha, hd, 1, "none") : c \in Texts, s \in Texts,
                                               ha \in BOOLEAN, hd \in BOOLEAN }

\* C1: when the round trip succeeded with status 500 and decoding failed, Do
\* returns an HTTPError with StatusCode 500 and the whole response body as
\* ResponseBody, and never the decoder's error.
C1_RawBodyAt500 ==
    (pc = "done" /\ Took("decode") /\ res.StatusCode = 500 /\ decErr # NoErr)
        => (err = HTTPError(500, res.Body) /\ err # decErr)

C1_Witness ==
    /\ pc = "done"
    /\ res.StatusCode = 500
    /\ res.Body = PlainTextDoc
    /\ decErr # NoErr
    /\ err.kind = "HTTPError"

\* C2: once decoding succeeded with the Body resolved to a Fault, Do returns the
\* FaultError contract's error built from the document's fault and the caller's
\* detail target, at every status, and never an HTTPError.
C2_FaultPreemptsRawBody ==
    (pc = "done" /\ Took("decode") /\ decErr = NoErr /\ respEnvelope.resolved = "Fault")
        => /\ err.kind = "FaultError"
           /\ err.Code = res.Body[5].text
           /\ err.String = res.Body[6].text
           /\ err.Detail = faultDetail

C2_Witness ==
    /\ pc = "done"
    /\ res.StatusCode = 500
    /\ decErr = NoErr
    /\ respEnvelope.resolved = "Fault"
    /\ err.kind = "FaultError"
    /\ err.Code = 1

\* C3: when the transport fails, Do returns the transport's error itself and
\* nothing of the envelope is processed: no envelope, no body read, no decode,
\* the caller's targets untouched.
C3_TransportErrorVerbatim ==
    (pc = "done" /\ transportErr # NoErr)
        => /\ err = transportErr
           /\ res = NoResponse
           /\ respEnvelope = NoEnvelope
           /\ body = "none"
           /\ cachedErrorBody = <<>>
           /\ ~Took("envelope") /\ ~Took("readall") /\ ~Took("live") /\ ~Took("decode")
           /\ decErr = NoErr
           /\ responseTarget = ZeroContent
           /\ faultDetail = 0

C3_Witness ==
    /\ pc = "done"
    /\ transportErr = [kind |-> "context canceled"]
    /\ err = transportErr

\* C4: when the round trip succeeded with a status other than 500 and decoding
\* failed, Do returns the decoder's error itself, never an HTTPError.
C4_DecodeErrorUnmodified ==
    (pc = "done" /\ Took("decode") /\ res.StatusCode # 500 /\ decErr # NoErr)
        => (err = decErr /\ err.kind # "HTTPError")

C4_Witness ==
    /\ pc = "done"
    /\ res.StatusCode = 200
    /\ decErr.kind = "SyntaxError"
    /\ err = decErr

C6_BodyClosedOnce ==
    /\ pc = "done" => closed = (IF TransportSucceeded THEN 1 ELSE 0)
    /\ pc # "done" => closed = 0

C6_Witness ==
    /\ pc = "done"
    /\ res.StatusCode = 500
    /\ body = "buffer"
    /\ decErr # NoErr
    /\ closed = 1

\* C7: a response whose content type is not the expected one makes Do return
\* ErrUnsupportedContentType.
C7_UnsupportedContentType ==
    (pc = "done" /\ TransportSucceeded /\ res.ContentType # "text/xml")
        => err = ErrUnsupportedContentType

\* The whole of the response stream can be read.
BodyReadable == res.failAt = 0

\* C8: after a successful decode the Body is in exactly one of its two states,
\* although Do binds both a content pointer and a Fault holder beforehand.  A
\* well-formed response read in full into a bound response decodes; when the
\* Body's first child is the Fault of the envelope namespace the response target
\* is left untouched and the Fault's Code and String are those of the document;
\* for any other first child only the response target is filled, the Fault
\* holder stays empty and no fault is reported.
C8_BodyContentXorFault ==
    /\ (pc = "done" /\ Took("decode") /\ response /\ BodyReadable
           /\ res.Body \in WellFormedDocs)
          => decErr = NoErr
    /\ (pc = "done" /\ Took("decode") /\ decErr = NoErr)
          => IF res.Body[4].name = faultName
             THEN /\ respEnvelope.resolved = "Fault"
                  /\ responseTarget = ZeroContent
                  /\ respEnvelope.Fault.Code = res.Body[5].text
                  /\ respEnvelope.Fault.String = res.Body[6].text
             ELSE /\ respEnvelope.resolved = "Content"
                  /\ responseTarget = DocContent(res.Body)
                  /\ respEnvelope.Fault = EmptyFault
                  /\ err = NoErr

C8_Witness ==
    /\ pc = "done"
    /\ Took("decode")
    /\ response
    /\ decErr = NoErr
    /\ res.Body[4].name = faultName
    /\ respEnvelope.resolved = "Fault"
    /\ respEnvelope.Fault.Code = 1
    /\ responseTarget = ZeroContent

\* The response stream can be read up to the start tag of the Body's first child.
FirstChildReadable == res.failAt = 0 \/ res.failAt > 4

\* C9: decoding a document whose Body's first child is not a Fault into an
\* envelope with no bound content target fails with ErrEnvelopeMisconfigured,
\* whether or not the content element is well-formed; row 7 of the decode test
\* table, whose content has a syntax error, expects the same.
C9_MisconfiguredBeforeContent ==
    /\ (pc = "done" /\ Took("decode") /\ ~response /\ res.Body \in ContentDocs
           /\ FirstChildReadable)
          => decErr = ErrEnvelopeMisconfigured
    /\ 7 \notin testErrors

C9_Witness ==
    /\ pc = "done"
    /\ ~response
    /\ res.Body = ContentDoc(contentName, 1, 1, "badattr")
    /\ decErr = ErrEnvelopeMisconfigured
    /\ testIndex > 7

\* The order of the steps of one call.
Rank(p) ==
    CASE p = "idle" -> 0
      [] p = "build" -> 1
      [] p = "send" -> 2
      [] p = "envelope" -> 3
      [] p = "status" -> 4
      [] p = "decode" -> 5
      [] p = "done" -> 6

\* C10: a call of Do issues at most one transport request, only ever moves on to
\* a later step, and once it has returned its outcome stays what it is until the
\* caller calls again.
C10_SingleAttempt ==
    [][ /\ requests' <= 1
        /\ pc' # pc => (Rank(pc') > Rank(pc) \/ (pc = "done" /\ pc' = "idle"))
        /\ (pc = "done" /\ pc' = "done") => err' = err
        /\ (pc # "done" /\ pc' # "done") => err' = NoErr ]_vars

C10_Witness ==
    /\ pc = "done"
    /\ err # NoErr
    /\ requests = 1
    /\ transportErr # NoErr

\* Position of a step in the trace of the call (0: not taken).
StepAt(step) ==
    IF Took(step) THEN CHOOSE i \in 1..Len(trace) : trace[i] = step ELSE 0

\* C13: at status 500 the whole body is read into the buffer before the decoder
\* is created and the decoder reads the buffer; at any other status the decoder
\* reads the live response stream and nothing is buffered.
C13_BufferOnlyAt500 ==
    (pc \in {"decode", "done"} /\ body # "none")
        => IF res.StatusCode = 500
           THEN /\ body = "buffer"
                /\ cachedErrorBody = res.Body
                /\ Took("readall") /\ ~Took("live")
                /\ Took("decode") => StepAt("readall") < StepAt("decode")
           ELSE /\ body = "live"
                /\ cachedErrorBody = <<>>
                /\ ~Took("readall")

C13_Witness ==
    /\ pc = "done"
    /\ res.StatusCode = 404
    /\ Took("decode")
    /\ body = "live"
    /\ cachedErrorBody = <<>>
    /\ Len(res.Body) > 0

-----------------------------------------------------------------------------

\* The line on which the tokenizer reports the defect of a generated document
\* (0: the document has none).
DefectLine(doc) ==
    IF Len(doc) < 6 THEN 0
    ELSE IF doc[5].k = "badattr" THEN 5
    ELSE IF doc[5].k = "unterminated" THEN 6
    ELSE IF doc[6].k = "close" /\ doc[6].name # doc[4].name /\ doc[4].name # faultName THEN 6
    ELSE 0

\* The syntax error the decode test table expects for that defect.
DefectError(doc) ==
    IF doc[5].k = "badattr"
    THEN SyntaxError(5, <<"expected attribute name in element">>)
    ELSE IF doc[5].k = "unterminated"
    THEN SyntaxError(6, <<"invalid characters between </", doc[5].name[2], " and >">>)
    ELSE SyntaxError(6, <<"element <", doc[4].name[2], "> closed by </", doc[6].name[2], ">">>)

\* Do decoded a malformed document that could be read up to its defect, into a
\* bound response or as a Fault.
DecodedMalformed ==
    /\ pc = "done"
    /\ Took("decode")
    /\ DefectLine(res.Body) # 0
    /\ (res.failAt = 0 \/ res.failAt > DefectLine(res.Body))
    /\ (response \/ res.Body[4].name = faultName)

\* C14 as claimed: a malformed document fails with the syntax error and leaves
\* nothing decoded before the error in the caller's content target or the Fault.
C14_NoPartialResult ==
    DecodedMalformed
        => /\ decErr = DefectError(res.Body)
           /\ responseTarget = ZeroContent
           /\ respEnvelope.Fault = EmptyFault

\* C14, amended: a malformed document fails with the syntax error carrying the
\* offending line and message, and the failure is never reported as success: Do
\* returns the syntax error, or at status 500 the HTTPError with the raw body.
\* What was decoded before the error may remain in the target and the Fault.
C14_SyntaxErrorSurfaced ==
    /\ DecodedMalformed
          => /\ decErr = DefectError(res.Body)
             /\ err # NoErr
             /\ err = IF res.StatusCode = 500 THEN HTTPError(500, res.Body) ELSE decErr
    /\ testErrors \cap {4, 5, 6} = {}

C14_Witness ==
    /\ DecodedMalformed
    /\ res.StatusCode = 200
    /\ decErr = SyntaxError(6, <<"element <", "ContentExample", "> closed by </", "Body", ">">>)
    /\ err = decErr
    /\ responseTarget # ZeroContent
    /\ testIndex > 6

-----------------------------------------------------------------------------

HasDetail(doc) == \E i \in 1..Len(doc) : doc[i].k = "open" /\ doc[i].name[2] = "detail"

\* The text of the faultactor child of a Fault document (0 when it has none).
DocActor(doc) ==
    IF doc[7].k = "leaf" /\ doc[7].name[2] = "faultactor" THEN doc[7].text ELSE 0

\* C15: a decoded Fault whose document has no detail child has no captured
\* detail at all (not an empty one), and its Code, String and Actor are those
\* of the document; with a detail child the detail is captured.  Row 3 of the
\* decode test table expects the same.
C15_NoDetailIsAbsent ==
    /\ (pc = "done" /\ Took("decode") /\ decErr = NoErr /\ respEnvelope.resolved = "Fault")
          => /\ respEnvelope.Fault.DetailInternal.present = HasDetail(res.Body)
             /\ ~HasDetail(res.Body) => respEnvelope.Fault.DetailInternal = NoDetail
             /\ respEnvelope.Fault.Code = res.Body[5].text
             /\ respEnvelope.Fault.String = res.Body[6].text
             /\ respEnvelope.Fault.Actor = DocActor(res.Body)
    /\ 3 \notin testErrors

C15_Witness ==
    /\ pc = "done"
    /\ Took("decode")
    /\ decErr = NoErr
    /\ respEnvelope.resolved = "Fault"
    /\ ~HasDetail(res.Body)
    /\ respEnvelope.Fault.DetailInternal = NoDetail
    /\ respEnvelope.Fault.Actor = 1
    /\ respEnvelope.Fault.Code = 1
    /\ testIndex > 3

-----------------------------------------------------------------------------

\* C16: when building the transport request fails, Do returns that error and
\* nothing else happens: no transport request, no response, no body read, no
\* decode, no close, the caller's targets untouched.
C16_BuildErrorReturned ==
    (pc = "done" /\ HttpRequestError(client.url) # NoErr)
        => /\ err = HttpRequestError(client.url)
           /\ ~httpReq
           /\ requests = 0
           /\ res = NoResponse
           /\ body = "none"
           /\ cachedErrorBody = <<>>
           /\ respEnvelope = NoEnvelope
           /\ closed = 0
           /\ trace = <<"call", "return">>
           /\ responseTarget = ZeroContent
           /\ faultDetail = 0

C16_Witness ==
    /\ pc = "done"
    /\ client.url = ":invalid"
    /\ err = [kind |-> "invalid URL"]
    /\ requests = 0

-----------------------------------------------------------------------------

\* C18: at status 500, when reading the body fails, Do returns the read error
\* and does not decode; an HTTPError always carries the whole body, never a
\* part of it.
C18_ReadErrorAt500 ==
    /\ (pc = "done" /\ res.StatusCode = 500 /\ res.failAt # 0)
          => /\ err = ReadError
             /\ ~Took("decode")
             /\ decErr = NoErr
             /\ respEnvelope.resolved = "none"
    /\ (pc = "done" /\ err.kind = "HTTPError") => err.ResponseBody = res.Body

C18_Witness ==
    /\ pc = "done"
    /\ res.StatusCode = 500
    /\ res.failAt = 3
    /\ Len(res.Body) > 3
    /\ Len(cachedErrorBody) = 2
    /\ err = ReadError

-----------------------------------------------------------------------------

\* C19: Do called with a nil response, on a document whose Body's first child
\* is not a Fault, always fails: with ErrEnvelopeMisconfigured at every status
\* other than 500, and at status 500 with the HTTPError carrying the raw body.
C19_MisconfiguredByStatus ==
    (pc = "done" /\ Took("decode") /\ ~response /\ res.Body \in ContentDocs
        /\ FirstChildReadable)
        => /\ decErr = ErrEnvelopeMisconfigured
           /\ err # NoErr
           /\ err = IF res.StatusCode = 500 THEN HTTPError(500, res.Body)
                    ELSE ErrEnvelopeMisconfigured

C19_Witness ==
    /\ pc = "done"
    /\ Took("decode")
    /\ ~response
    /\ res.Body = ContentDoc(contentName, 1, 1, "none")
    /\ res.StatusCode = 500
    /\ err = HTTPError(500, res.Body)

-----------------------------------------------------------------------------
(* Properties of the request builder and of Encode *)

EncodeTestsPass == encIndex > Len(envelopeEncodeTests) => encErrors = {}

IndexOf(w, item) == { i \in 1..Len(w) : w[i] = item }

\* The children of the Header element of an encoded envelope, none if absent.
HeaderOf(w) ==
    IF IndexOf(w, Open(headerName, 0)) = {} \/ IndexOf(w, Close(headerName)) = {}
    THEN <<>>
    ELSE LET h == CHOOSE i \in IndexOf(w, Open(headerName, 0)) : TRUE
             c == CHOOSE i \in IndexOf(w, Close(headerName)) : TRUE
         IN  SubSeq(w, h + 1, c - 1)

\* C12: the builders of a request are the Client's standing builders followed
\* by those of later AddHeader calls; the Header of the encoded envelope holds
\* their elements in that order, is absent exactly when they contribute no
\* element, and stands before Body.
C12_HeaderInRegistrationOrder ==
    /\ encErrors = {}
    /\ rpc # "idle" => req.headers = client.headers \o added
    /\ rpc \in {"encoded", "decoded"} =>
          LET registered == HeaderElements(client.headers \o added)
          IN  /\ HeaderOf(wire) = registered
              /\ (IndexOf(wire, Open(headerName, 0)) = {}) <=> (registered = <<>>)
              /\ IndexOf(wire, Open(bodyName, 0)) # {}
              /\ \A h \in IndexOf(wire, Close(headerName)),
                    b \in IndexOf(wire, Open(bodyName, 0)) : h < b

\* A request with a standing builder, a later one, and a Header of three elements.
C12_Witness ==
    /\ rpc = "encoded"
    /\ Len(client.headers) = 2
    /\ Len(added) = 1
    /\ client.headers[1] = <<>>
    /\ Len(HeaderOf(wire)) = 3
    /\ encIndex > Len(envelopeEncodeTests)

\* C17 as stated: the decoded value equals the original unless the caller left
\* the element name unset.
C17_RoundTripEqual ==
    rpc = "decoded" =>
        /\ back.err = NoErr
        /\ req.content.XMLName # NoName => back.target = req.content

\* C17: the decoded value equals the original in every field but the element
\* name, which holds the name of the element on the wire, the canonical one,
\* whatever the caller had set.
C17_RoundTripUpToName ==
    rpc = "decoded" =>
        /\ back.err = NoErr
        /\ back.target = [req.content EXCEPT !.XMLName = contentName]
        /\ (back.target = req.content) <=> (req.content.XMLName = contentName)

\* A value with the local name alone and non-zero fields went round.
C17_Witness ==
    /\ rpc = "decoded"
    /\ req.content.XMLName = QName("", "ContentExample")
    /\ req.content.Attr1 = 1
    /\ req.content.Field1.Value = 1
    /\ back.target.Field1.Value = 1
    /\ back.target.XMLName = contentName

-----------------------------------------------------------------------------
(* Properties of concurrent calls *)

\* What a call with the inputs of k returns when it runs alone on Client cl.
Alone(cl, k) ==
    LET e   == HttpRequestError(cl.url)
        r   == ReadAll(k.res.Body, k.res.failAt)
        buf == IF k.res.StatusCode = 500 THEN r.data ELSE <<>>
        d   == Decode(k.res.Body, 0, NewRespEnvelope(k.response), ZeroContent)
    IN  IF e # NoErr
        THEN [err |-> e, target |-> ZeroContent, cachedErrorBody |-> <<>>]
        ELSE IF k.transportErr # NoErr
        THEN [err |-> TransportFailure(k.transportErr), target |-> ZeroContent,
              cachedErrorBody |-> <<>>]
        ELSE [err |-> DoResult(k.res.StatusCode, d, buf), target |-> d.target,
              cachedErrorBody |-> buf]

\* A step that changes the Client changes its transport alone and is no step of a call.
ClientWrittenOutsideCalls ==
    client' # client =>
        /\ client'.url = client.url
        /\ client'.headers = client.headers
        /\ calls' = calls

\* A step changes the state of one call at most.
OneCallPerStep ==
    \A c, o \in CallIds : c # o /\ calls'[c] # calls[c] => calls'[o] = calls[o]

\* A request carries the Client's builders, and a returned call returned what it
\* returns alone.
PrivateOutcome(cl, k) ==
    /\ k.pc \notin {"idle", "build"} => k.req = DoRequest(cl, ZeroContent)
    /\ k.pc = "done" =>
         /\ k.err = Alone(cl, k).err
         /\ k.target = Alone(cl, k).target
         /\ k.cachedErrorBody = Alone(cl, k).cachedErrorBody

\* C11: in every interleaving of Do calls on one Client no step of a call
\* writes the Client (only SettHTTPClient does, and only its transport), a step
\* touches the request, envelope and cached body of one call only, and every
\* call returns what it returns when it runs alone.
C11_CallsIndependent ==
    [][ /\ ClientWrittenOutsideCalls
        /\ OneCallPerStep
        /\ \A c \in CallIds : PrivateOutcome(client', calls'[c]) ]_vars

\* Two calls returned, one at status 500 with its raw body and one with a
\* content at 200, on a Client with a standing builder whose transport was
\* replaced after the first call had used it.
C11_Witness ==
    /\ calls[1].pc = "done"
    /\ calls[2].pc = "done"
    /\ client.headers # <<>>
    /\ calls[1].http = "DefaultClient"
    /\ client.http = "CustomClient"
    /\ calls[1].res.StatusCode = 500
    /\ calls[1].err = HTTPError(500, PlainTextDoc)
    /\ calls[2].res.StatusCode = 200
    /\ calls[2].err = NoErr
    /\ calls[2].target # ZeroContent
    /\ calls[1].cachedErrorBody # calls[2].cachedErrorBody

====
